---- MODULE Spec2Model ----
(***************************************************************************)
(* BrainDash API: the heuristic task categorizer (call_gemini_categorize)  *)
(* and the four /api routes over the "task" and "moodlog" collections.     *)
(* Texts are strings; `k in t`, str.lower() and s[:100] are computed       *)
(* character by character.                                                 *)
(***************************************************************************)
EXTENDS Integers, Sequences, FiniteSets, TLC

VARIABLES
    GEMINI_API_KEY,  \* os.getenv("GEMINI_API_KEY"), read once at import
    stamp_key,       \* the field under which the document store stamps a creation time
    db,              \* collection name -> the documents of the collection, oldest first
    clock,           \* the store's wall clock: the last creation time handed out;
                     \* every insert is stamped later than the one before
    response,        \* the last HTTP response, with the request that caused it
    inText,          \* argument `text` of a direct call of the categorizer
    inMood,          \* argument `mood`
    inEnergy,        \* argument `energy`
    ai,              \* outcome of that call
    pc               \* "ready": the direct call is still to be made; "done": it was made;
                     \* "serving": the process serves HTTP requests

vars == <<GEMINI_API_KEY, stamp_key, db, clock, response, inText, inMood, inEnergy, ai, pc>>

----------------------------------------------------------------------------
(* Python values *)

\* Python's None (also an unset environment variable).
None == "<None>"

\* Truth value of an Optional[str]: None and "" are falsy.
Truthy(s) == s # None /\ s # ""

Min(a, b) == IF a <= b THEN a ELSE b

Max(a, b) == IF a >= b THEN a ELSE b

EnergyLevel == {"low", "medium", "high"}

UpperChars == "ABCDEFGHIJKLMNOPQRSTUVWXYZ"

LowerChars == "abcdefghijklmnopqrstuvwxyz"

\* Each upper-case letter's lower-case letter.
LowerOf ==
    [c \in {SubSeq(UpperChars, i, i) : i \in 1..Len(UpperChars)} |->
        LET i == CHOOSE i \in 1..Len(UpperChars) : SubSeq(UpperChars, i, i) = c
        IN  SubSeq(LowerChars, i, i)]

\* str.lower() of one character.
LowerChar(c) == IF c \in DOMAIN LowerOf THEN LowerOf[c] ELSE c

RECURSIVE LowerFrom(_, _)
LowerFrom(s, i) ==
    IF i > Len(s) THEN "" ELSE LowerChar(SubSeq(s, i, i)) \o LowerFrom(s, i + 1)

\* text.lower()
Lower(s) == LowerFrom(s, 1)

\* k in t, for strings: k occurs in t as a contiguous substring.
Contains(k, t) ==
    \E i \in 1..(Len(t) - Len(k) + 1) : SubSeq(t, i, i + Len(k) - 1) = k

\* any(k in t for k in ks)
AnyIn(ks, t) == \E i \in 1..Len(ks) : Contains(ks[i], t)

\* s[:n]
Prefix(s, n) == SubSeq(s, 1, Min(Len(s), n))

----------------------------------------------------------------------------
(* call_gemini_categorize: the heuristic fallback *)

AdminKeys == <<"email", "invoice", "schedule", "book", "call">>

DeepKeys == <<"write", "design", "analy", "plan">>

CreativeKeys == <<"brainstorm", "sketch", "compose">>

SocialKeys == <<"meet", "coffee", "chat">>

UrgentKeys == <<"today", "urgent", "asap", "now">>

HighKeys == <<"write", "design", "clean", "gym">>

LowKeys == <<"email", "sort", "file">>

Tips == << "Break it into a 10-minute starter step.",
           "Set a 20-minute timer and start.",
           "Pair it with music that matches your energy." >>

\* A plausible slip: the deep rule tried before the admin rule.
CategoryDeepFirst(t) ==
    IF AnyIn(DeepKeys, t) THEN "deep"
    ELSE IF AnyIn(AdminKeys, t) THEN "admin"
    ELSE IF AnyIn(CreativeKeys, t) THEN "creative"
    ELSE IF AnyIn(SocialKeys, t) THEN "social"
    ELSE "other"

\* t is the lower-cased text.
Category(t) ==
    IF AnyIn(AdminKeys, t) THEN "admin"
    ELSE IF AnyIn(DeepKeys, t) THEN "deep"
    ELSE IF AnyIn(CreativeKeys, t) THEN "creative"
    ELSE IF AnyIn(SocialKeys, t) THEN "social"
    ELSE "other"

\* A plausible slip: "tomorrow" tested first, so it masks the urgency-3 keywords.
UrgencyTomorrowFirst(t) ==
    IF Contains("tomorrow", t) THEN 2 ELSE IF AnyIn(UrgentKeys, t) THEN 3 ELSE 1

Urgency(t) ==
    IF AnyIn(UrgentKeys, t) THEN 3 ELSE IF Contains("tomorrow", t) THEN 2 ELSE 1

EnergyReq(t) ==
    IF AnyIn(HighKeys, t) THEN "high"
    ELSE IF AnyIn(LowKeys, t) THEN "low"
    ELSE "medium"

\* A plausible slip: a 0..3 urgency weighted by 30 and the clamp forgotten.
PriorityUnclamped(urgency, energy_req, energy) ==
    50 + 30 * urgency + (IF Truthy(energy) /\ energy_req = energy THEN 10 ELSE 0)

\* A plausible slip: the bonus given for any self-reported energy, matching or not.
PriorityAnyEnergy(urgency, energy_req, energy) ==
    LET base == 50 + (IF urgency = 3 THEN 10 ELSE 0) + (IF urgency = 2 THEN 5 ELSE 0)
        bonus == IF Truthy(energy) THEN base + 10 ELSE base
    IN  Max(0, Min(100, bonus))

Priority(urgency, energy_req, energy) ==
    LET base == 50 + (IF urgency = 3 THEN 10 ELSE 0) + (IF urgency = 2 THEN 5 ELSE 0)
        bonus == IF Truthy(energy) /\ energy_req = energy THEN base + 10 ELSE base
    IN  Max(0, Min(100, bonus))

Due(t) ==
    IF Contains("today", t) THEN "today"
    ELSE IF Contains("tomorrow", t) THEN "tomorrow"
    ELSE None

\* The dict the heuristic branch returns.
Heuristic(text, mood, energy) ==
    LET t == Lower(text)
        urgency == Urgency(t)
        energy_req == EnergyReq(t)
    IN  [ category |-> Category(t),
          urgency  |-> urgency,
          energy   |-> energy_req,
          priority |-> Priority(urgency, energy_req, energy),
          tips     |-> Tips,
          due      |-> Due(t) ]

\* str(e) of the AttributeError raised by `call_gemini_categorize.__wrapped__`:
\* a plain function has no such attribute.
WrappedError == "'function' object has no attribute '__wrapped__'"

\* The outcome of a call: a returned dict, or a raised exception with its str().
call_gemini_categorize(text, mood, energy) ==
    IF ~Truthy(GEMINI_API_KEY)
    THEN [raised |-> FALSE, value |-> Heuristic(text, mood, energy), exc |-> ""]
    ELSE [raised |-> TRUE, value |-> <<>>, exc |-> WrappedError]

----------------------------------------------------------------------------
(* database: create_document / get_documents *)

\* The id the store gives the next inserted document.
NextId == Len(db["task"]) + Len(db["moodlog"]) + 1

\* The collection after create(collection_name, record): the record is appended with
\* a fresh "_id" and the server-assigned creation time ts under stamp_key.
create_document(collection_name, data, ts) ==
    [db EXCEPT ![collection_name] =
        Append(@, (stamp_key :> ts) @@ ("_id" :> NextId) @@ data)]

\* A document matches a filter when it carries every key of it with an equal value.
Matches(d, filter_dict) ==
    \A k \in DOMAIN filter_dict : k \in DOMAIN d /\ d[k] = filter_dict[k]

RECURSIVE SelectDocs(_, _)
SelectDocs(docs, filter_dict) ==
    IF docs = <<>> THEN <<>>
    ELSE IF Matches(Head(docs), filter_dict)
         THEN <<Head(docs)>> \o SelectDocs(Tail(docs), filter_dict)
         ELSE SelectDocs(Tail(docs), filter_dict)

\* list(collection_name, filter): the matching documents, oldest first.
get_documents(collection_name, filter_dict) ==
    SelectDocs(db[collection_name], filter_dict)

----------------------------------------------------------------------------
(* pydantic models and list helpers of the routes *)

\* A plausible slip: the computed requirement stored as the self-reported energy.
TaskUserEnergyFromAi(text, ai_value, mood, energy) ==
    [ text        |-> text,
      category    |-> ai_value.category,
      energy      |-> ai_value.energy,
      urgency     |-> ai_value.urgency,
      priority    |-> ai_value.priority,
      due         |-> ai_value.due,
      tips        |-> ai_value.tips,
      mood        |-> mood,
      user_energy |-> ai_value.energy,
      completed   |-> FALSE ]

\* Task(...).model_dump() as create_task builds it; completed takes its default.
Task(text, ai_value, mood, energy) ==
    [ text        |-> text,
      category    |-> ai_value.category,
      energy      |-> ai_value.energy,
      urgency     |-> ai_value.urgency,
      priority    |-> ai_value.priority,
      due         |-> ai_value.due,
      tips        |-> ai_value.tips,
      mood        |-> mood,
      user_energy |-> energy,
      completed   |-> FALSE ]

\* The Field constraints of Task that a heuristic annotation could break.
TaskValid(data) ==
    /\ data.energy \in EnergyLevel
    /\ data.urgency \in 0..3
    /\ data.priority \in 0..100

\* MoodLog(mood=..., energy=..., notes=...).model_dump(): recorded_at keeps its default.
MoodLog(mood, energy, notes) ==
    [ mood |-> mood, energy |-> energy, notes |-> notes, recorded_at |-> None ]

\* d["id"] = str(d.pop("_id"))
PublicDoc(d) ==
    IF "_id" \in DOMAIN d
    THEN [k \in (DOMAIN d \ {"_id"}) \cup {"id"} |->
            IF k = "id" THEN ToString(d["_id"]) ELSE d[k]]
    ELSE d

PublicDocs(docs) == [i \in 1..Len(docs) |-> PublicDoc(docs[i])]

\* One step of a stable descending sort of <<key, document>> pairs: p goes behind
\* every pair whose key is not smaller than its own.
InsertDesc(sorted, p) ==
    LET n == Cardinality({i \in 1..Len(sorted) : sorted[i][1] >= p[1]})
    IN  SubSeq(sorted, 1, n) \o <<p>> \o SubSeq(sorted, n + 1, Len(sorted))

RECURSIVE SortPairsDesc(_)
SortPairsDesc(pairs) ==
    IF pairs = <<>> THEN <<>>
    ELSE InsertDesc(SortPairsDesc(SubSeq(pairs, 1, Len(pairs) - 1)), pairs[Len(pairs)])

\* docs.sort(key=..., reverse=True), keys[i] being the key of docs[i]: descending
\* and stable.
SortDesc(docs, keys) ==
    LET sorted == SortPairsDesc([i \in 1..Len(docs) |-> <<keys[i], docs[i]>>])
    IN  [i \in 1..Len(docs) |-> sorted[i][2]]

\* lambda x: x.get("priority", 0)
PriorityKey(x) == IF "priority" \in DOMAIN x THEN x["priority"] ELSE 0

\* lambda x: x.get("created_at", 0)
CreatedAtKey(x) == IF "created_at" \in DOMAIN x THEN x["created_at"] ELSE 0

\* A plausible slip: the filter put on the self-reported energy.
TaskFilterOnUserEnergy(energy) ==
    IF Truthy(energy) THEN ("user_energy" :> energy) ELSE <<>>

\* filter_dict of list_tasks: {} unless a non-empty energy is given.
TaskFilter(energy) ==
    IF Truthy(energy) THEN ("energy" :> energy) ELSE <<>>

\* A plausible slip: reverse=True forgotten, the list left in store order.
SortTasksUnsorted(docs) == docs

SortTasks(docs) == SortDesc(docs, [i \in 1..Len(docs) |-> PriorityKey(docs[i])])

SortMoods(docs) == SortDesc(docs, [i \in 1..Len(docs) |-> CreatedAtKey(docs[i])])

----------------------------------------------------------------------------
(* inputs and bounds *)

\* Documents the two collections may hold together.
MaxDocs == 2

\* Words of a text handed to the categorizer directly.
MaxWords == 2

\* GEMINI_API_KEY: unset, set but empty, set.
Keys == {None, "", "key"}

\* "created_at" is the key list_mood reads; "recorded_at" is the MoodLog field
\* documented as set on insert.
StampKeys == {"created_at", "recorded_at"}

Vocabulary == { "Email", "Write", "design-plan", "sketch", "coffee", "TODAY", "know",
                "tomorrow", "gym", "file", "mom" }

RECURSIVE TextsUpTo(_)
TextsUpTo(n) ==
    IF n = 0 THEN {""}
    ELSE LET shorter == TextsUpTo(n - 1)
         IN  shorter \cup
             {IF t = "" THEN w ELSE t \o " " \o w : t \in shorter, w \in Vocabulary}

Texts == TextsUpTo(MaxWords)

\* Arguments of a direct call: any energy level or none.
Energies == {None} \cup EnergyLevel

\* Bodies of POST /api/tasks (TaskInput).
TaskInputs ==
    { [text |-> "Write the quarterly report today", mood |-> None, energy |-> None],
      [text |-> "Write the quarterly report today", mood |-> "tired", energy |-> "high"],
      [text |-> "Call mom tomorrow", mood |-> None, energy |-> "low"],
      [text |-> "File the invoice", mood |-> "tired", energy |-> "high"],
      [text |-> "", mood |-> None, energy |-> "medium"] }

\* Bodies of POST /api/mood (MoodInput).

MoodInputs ==
    { [mood |-> "calm", energy |-> "high", notes |-> None],
      [mood |-> "tired", energy |-> "low", notes |-> "slept badly"] }

\* Values of the energy query parameter: absent, empty, a level.
EnergyParams == {None, ""} \cup EnergyLevel

NoResponse == [req |-> [op |-> "none"], status |-> 0, detail |-> "", body |-> <<>>]

NoOutcome == [raised |-> FALSE, value |-> <<>>, exc |-> ""]

----------------------------------------------------------------------------
(* the routes *)

\* A plausible slip: the diagnostic cut to 10 characters instead of 100.
AiErrorDetailCut10(exc) == "AI error: " \o Prefix(exc, 10)

\* f"AI error: {str(e)[:100]}"
AiErrorDetail(exc) == "AI error: " \o Prefix(exc, 100)

\* POST /api/tasks
create_task(task) ==
    LET req == [op |-> "POST /api/tasks", task |-> task]
        out == call_gemini_categorize(task.text, task.mood, task.energy)
    IN  /\ pc = "serving"
        /\ IF out.raised
           THEN /\ response' = [ req |-> req, status |-> 500,
                                 detail |-> AiErrorDetail(out.exc),
                                 body |-> <<>> ]
                /\ UNCHANGED <<db, clock>>
           ELSE LET data == Task(task.text, out.value, task.mood, task.energy)
                IN  IF ~TaskValid(data)
                    THEN /\ response' = [ req |-> req, status |-> 500,
                                          detail |-> "Internal Server Error",
                                          body |-> <<>> ]
                         /\ UNCHANGED <<db, clock>>
                    ELSE /\ NextId <= MaxDocs
                         /\ clock' = clock + 1
                         /\ db' = create_document("task", data, clock')
                         /\ response' = [ req |-> req, status |-> 200, detail |-> "",
                                          body |-> [id |-> ToString(NextId), task |-> data] ]
        /\ UNCHANGED <<GEMINI_API_KEY, stamp_key, inText, inMood, inEnergy, ai, pc>>

\* GET /api/tasks
list_tasks(energy) ==
    LET req == [op |-> "GET /api/tasks", energy |-> energy]
        docs == PublicDocs(get_documents("task", TaskFilter(energy)))
    IN  /\ pc = "serving"
        /\ response' = [ req |-> req, status |-> 200, detail |-> "",
                         body |-> [tasks |-> SortTasks(docs)] ]
        /\ UNCHANGED <<GEMINI_API_KEY, stamp_key, db, clock, inText, inMood, inEnergy, ai, pc>>

\* POST /api/mood
log_mood(mood) ==
    LET req == [op |-> "POST /api/mood", mood |-> mood]
        data == MoodLog(mood.mood, mood.energy, mood.notes)
    IN  /\ pc = "serving"
        /\ NextId <= MaxDocs
        /\ clock' = clock + 1
        /\ db' = create_document("moodlog", data, clock')
        /\ response' = [ req |-> req, status |-> 200, detail |-> "",
                         body |-> [id |-> ToString(NextId), mood |-> mood] ]
        /\ UNCHANGED <<GEMINI_API_KEY, stamp_key, inText, inMood, inEnergy, ai, pc>>

\* GET /api/mood
list_mood ==
    LET req == [op |-> "GET /api/mood"]
        docs == PublicDocs(get_documents("moodlog", <<>>))
    IN  /\ pc = "serving"
        /\ response' = [ req |-> req, status |-> 200, detail |-> "",
                         body |-> [moods |-> SortMoods(docs)] ]
        /\ UNCHANGED <<GEMINI_API_KEY, stamp_key, db, clock, inText, inMood, inEnergy, ai, pc>>

\* A direct call call_gemini_categorize(inText, inMood, inEnergy).
Categorize ==
    /\ pc = "ready"
    /\ ai' = call_gemini_categorize(inText, inMood, inEnergy)
    /\ pc' = "done"
    /\ UNCHANGED <<GEMINI_API_KEY, stamp_key, db, clock, response, inText, inMood, inEnergy>>

----------------------------------------------------------------------------
(* specifications *)

EmptyDb == [c \in {"task", "moodlog"} |-> <<>>]

\* The service after start-up, on empty collections.
Init ==
    /\ GEMINI_API_KEY \in Keys
    /\ stamp_key \in StampKeys
    /\ db = EmptyDb
    /\ clock = 0
    /\ response = NoResponse
    /\ inText = ""
    /\ inMood = None
    /\ inEnergy = None
    /\ ai = NoOutcome
    /\ pc = "serving"

Next ==
    \/ \E task \in TaskInputs : create_task(task)
    \/ \E energy \in EnergyParams : list_tasks(energy)
    \/ \E mood \in MoodInputs : log_mood(mood)
    \/ list_mood

Spec == Init /\ [][Next]_vars

\* The categorizer called once on an input drawn from Texts.
InitCat ==
    /\ GEMINI_API_KEY \in Keys
    /\ stamp_key = "created_at"
    /\ db = EmptyDb
    /\ clock = 0
    /\ response = NoResponse
    /\ inText \in Texts
    /\ inMood = None
    /\ inEnergy \in Energies
    /\ ai = NoOutcome
    /\ pc = "ready"

NextCat == Categorize

SpecCat == InitCat /\ [][NextCat]_vars

----------------------------------------------------------------------------
(* properties of the categorizer, checked under SpecCat *)

\* The direct call returned a dict (the heuristic path).
Returned == pc = "done" /\ ~ai.raised

\* The keywords of ks that occur in the lower-cased input text.
Hits(ks) == {k \in ks : Contains(k, Lower(inText))}

\* C1: the categorizer returns an integer priority in [0, 100] for every text and
\* every optional self-reported energy, so every stored task has one.
C1_PriorityInRange ==
    Returned => ai.value.priority \in 0..100

\* An urgent text with a matching self-reported energy gets the highest score, 70.
C1_Witness ==
    Returned /\ ai.value.urgency = 3 /\ inEnergy = ai.value.energy /\ ai.value.priority = 70

\* C2: the category is that of the first satisfied rule in the order
\* admin, deep, creative, social, other over the lower-cased text, however many
\* keywords of a later category the text holds.
C2_CategoryFirstRule ==
    Returned =>
        LET admin    == Hits({"email", "invoice", "schedule", "book", "call"}) # {}
            deep     == Hits({"write", "design", "analy", "plan"}) # {}
            creative == Hits({"brainstorm", "sketch", "compose"}) # {}
            social   == Hits({"meet", "coffee", "chat"}) # {}
        IN  /\ admin => ai.value.category = "admin"
            /\ (~admin /\ deep) => ai.value.category = "deep"
            /\ (~admin /\ ~deep /\ creative) => ai.value.category = "creative"
            /\ (~admin /\ ~deep /\ ~creative /\ social) => ai.value.category = "social"
            /\ (~admin /\ ~deep /\ ~creative /\ ~social) => ai.value.category = "other"

\* One admin keyword wins over two keywords of the deep rule.
C2_Witness ==
    /\ Returned
    /\ ai.value.category = "admin"
    /\ Cardinality(Hits({"email", "invoice", "schedule", "book", "call"})) = 1
    /\ Cardinality(Hits({"write", "design", "analy", "plan"})) >= 2

\* C3: urgency is 3 when the lower-cased text holds one of today, urgent, asap, now;
\* otherwise 2 when it holds "tomorrow"; otherwise 1; it is never 0.
C3_UrgencyRule ==
    Returned =>
        LET urgent   == Hits({"today", "urgent", "asap", "now"}) # {}
            tomorrow == Hits({"tomorrow"}) # {}
        IN  /\ urgent => ai.value.urgency = 3
            /\ (~urgent /\ tomorrow) => ai.value.urgency = 2
            /\ (~urgent /\ ~tomorrow) => ai.value.urgency = 1
            /\ ai.value.urgency \in {1, 2, 3}

\* A text with "tomorrow" and no urgency-3 keyword, rated 2.
C3_Witness ==
    /\ Returned
    /\ Hits({"tomorrow"}) # {}
    /\ Hits({"today", "urgent", "asap", "now"}) = {}
    /\ ai.value.urgency = 2

\* C4: a self-reported energy equal to the computed requirement adds exactly 10 to
\* the priority of the same call without one (so it is strictly greater, or equal
\* only at 100); any other self-reported energy changes nothing; and the priority is
\* 50 + (10 if urgency 3, 5 if urgency 2) + (10 on a match).
C4_EnergyMatchBonus ==
    Returned =>
        LET v       == ai.value
            without == call_gemini_categorize(inText, inMood, None).value.priority
            match   == inEnergy = v.energy
        IN  /\ v.priority = 50 + (IF v.urgency = 3 THEN 10 ELSE IF v.urgency = 2 THEN 5 ELSE 0)
                               + (IF match THEN 10 ELSE 0)
            /\ match => \/ v.priority > without
                        \/ v.priority = without /\ without = 100
            /\ (match /\ without + 10 <= 100) => v.priority = without + 10
            /\ ~match => v.priority = without

\* A call whose self-reported energy matches the requirement and is not None.
C4_Witness ==
    /\ Returned
    /\ inEnergy = ai.value.energy
    /\ ai.value.priority = call_gemini_categorize(inText, inMood, None).value.priority + 10

----------------------------------------------------------------------------
(* properties of the routes, checked under Spec *)

\* The response answers a request of the given route.
Answers(op) == response.req.op = op

\* The stored documents of a collection as the API shows them.
Stored(c) == {PublicDoc(db[c][i]) : i \in 1..Len(db[c])}

\* C5: GET /api/tasks succeeds and lists its records in non-increasing order of
\* priority, a record without a priority counting as 0; on an empty collection the
\* list is empty.
C5_TasksByPriorityDesc ==
    Answers("GET /api/tasks") =>
        LET tasks == response.body.tasks
        IN  /\ response.status = 200
            /\ \A i, j \in 1..Len(tasks) :
                   i < j => PriorityKey(tasks[i]) >= PriorityKey(tasks[j])
            /\ db["task"] = <<>> => tasks = <<>>

\* A list in which a task created later stands before one created earlier.
C5_Witness ==
    /\ Answers("GET /api/tasks")
    /\ Len(response.body.tasks) >= 2
    /\ response.body.tasks[1].id = "2"
    /\ response.body.tasks[2].id = "1"
    /\ response.body.tasks[1].priority > response.body.tasks[2].priority

\* C6: GET /api/tasks?energy=L lists exactly the stored tasks whose energy (the
\* computed requirement) is L, and without a (non-empty) energy every stored task:
\* none omitted, none twice, none changed.
C6_TasksFilteredByEnergy ==
    Answers("GET /api/tasks") =>
        LET tasks == response.body.tasks
            L     == response.req.energy
            listed == {tasks[i] : i \in 1..Len(tasks)}
        IN  /\ Cardinality(listed) = Len(tasks)
            /\ listed = IF Truthy(L) THEN {d \in Stored("task") : d.energy = L}
                                     ELSE Stored("task")

\* A filtered list that leaves out a task whose self-reported energy is L but whose
\* requirement is not.
C6_Witness ==
    /\ Answers("GET /api/tasks")
    /\ response.req.energy = "high"
    /\ Len(response.body.tasks) = 1
    /\ \E d \in Stored("task") : d.user_energy = "high" /\ d.energy = "low"

\* C7: GET /api/mood lists the mood logs by their creation timestamp recorded_at,
\* newest first: every listed log carries the time of its insertion in recorded_at,
\* and a log stands before every log inserted earlier.
C7_MoodsByRecordedAtDesc ==
    Answers("GET /api/mood") =>
        LET moods == response.body.moods
        IN  \A i, j \in 1..Len(moods) :
                i < j => /\ stamp_key = "recorded_at"  \* else recorded_at is None
                         /\ moods[i]["recorded_at"] > moods[j]["recorded_at"]

\* C8: with an API key configured POST /api/tasks succeeds and stores the task
\* with an annotation of the heuristic's shape.
C8_RemoteSameShape ==
    (Answers("POST /api/tasks") /\ Truthy(GEMINI_API_KEY)) =>
        /\ response.status = 200
        /\ db["task"] # <<>>
        /\ {"category", "urgency", "energy", "priority", "tips", "due"}
               \subseteq DOMAIN response.body.task

\* C9: when the categorizer raises, POST /api/tasks answers 500 with the detail
\* "AI error: " followed by the first 100 characters at most of the diagnostic, and
\* both collections stay as they were.
C9_CategorizerFailure ==
    [][ ( /\ response'.req.op = "POST /api/tasks"
          /\ call_gemini_categorize(response'.req.task.text, response'.req.task.mood,
                                    response'.req.task.energy).raised )
        => LET diag == call_gemini_categorize(response'.req.task.text,
                           response'.req.task.mood, response'.req.task.energy).exc
               n    == Len(response'.detail) - Len("AI error: ")
           IN  /\ response'.status = 500
               /\ n = Min(Len(diag), 100)
               /\ response'.detail = "AI error: " \o SubSeq(diag, 1, n)
               /\ db' = db ]_vars

\* A failed POST /api/tasks on a store that holds a mood log.
C9_Witness ==
    /\ Answers("POST /api/tasks")
    /\ response.status = 500
    /\ Len(response.detail) > Len("AI error: ")
    /\ db["moodlog"] # <<>>
    /\ db["task"] = <<>>

\* C10: a successful POST appends exactly one record to its own collection and
\* leaves the other alone, the new task holding completed = false and the submitted
\* mood and energy; no request removes or changes a stored record; GET requests
\* leave both collections as they were; equal bodies give separate records.
C10_AppendOnly ==
    [][ LET op  == response'.req.op
            new(c) == db'[c][Len(db'[c])]
        IN  /\ \A c \in {"task", "moodlog"} :
                   /\ Len(db'[c]) >= Len(db[c])
                   /\ SubSeq(db'[c], 1, Len(db[c])) = db[c]
            /\ (op = "POST /api/tasks" /\ response'.status = 200) =>
                   /\ Len(db'["task"]) = Len(db["task"]) + 1
                   /\ db'["moodlog"] = db["moodlog"]
                   /\ new("task").completed = FALSE
                   /\ new("task").text = response'.req.task.text
                   /\ new("task").user_energy = response'.req.task.energy
                   /\ new("task").mood = response'.req.task.mood
                   /\ \A i \in 1..Len(db["task"]) : db["task"][i]["_id"] # new("task")["_id"]
            /\ (op = "POST /api/mood" /\ response'.status = 200) =>
                   /\ Len(db'["moodlog"]) = Len(db["moodlog"]) + 1
                   /\ db'["task"] = db["task"]
                   /\ new("moodlog").mood = response'.req.mood.mood
                   /\ new("moodlog").energy = response'.req.mood.energy
            /\ op \in {"GET /api/tasks", "GET /api/mood"} => db' = db
            /\ response'.status # 200 => db' = db ]_vars

\* Two records stored for two POSTs of the same body, whose self-reported energy
\* differs from the computed requirement.
C10_Witness ==
    /\ Len(db["task"]) = 2
    /\ db["task"][1].text = db["task"][2].text
    /\ db["task"][1].mood = db["task"][2].mood
    /\ db["task"][1].user_energy = db["task"][2].user_energy
    /\ db["task"][1]["_id"] # db["task"][2]["_id"]
    /\ db["task"][1].user_energy # db["task"][1].energy
    /\ db["task"][1].completed = FALSE

====
